---- MODULE Spec2Model ----
(* Model of MoM_Funnel.py: Metabase login, two retried query fetches       *)
(* (Base, RFD), DataFrame sanitisation and the clear-then-update write of   *)
(* each result into its Google Sheets worksheet.                            *)
EXTENDS Integers, Sequences, FiniteSets, TLC

VARIABLES
    pc,           \* position of the (single) thread of control
    cur,          \* query being processed: "Base" (lines 140-151) or "RFD" (153-164)
    retries,      \* retries parameter of the helper call in progress
    attempt,      \* loop variable of the helper call in progress
    fails,        \* failed attempts of the helper call in progress
    sleeps,       \* time.sleep arguments of the helper call in progress, in order
    result,       \* what the last helper call returned ("pending" while none has)
    authCalls,    \* number of login requests issued
    authState,    \* "none", "ok" or "failed"
    token,        \* res.json()['id']
    METABASE_HEADERS, \* the X-Metabase-Session header value
    sentSession,  \* per query: session header carried by its last fetch request
    fetchCalls,   \* per query: requests.post calls issued
    response,     \* per query: body of the response fetch_with_retry returned
    raw,          \* per query: pd.DataFrame(response.json())
    df,           \* per query: the table handed to safe_update_sheet
    resanitized,  \* sanitize_df applied to an already sanitised table
    stage,        \* per query: "pending", "fetched", "parsed", "empty", "sanitized", "written"
    sheet,        \* per worksheet: its cell grid
    pre,          \* per worksheet: its cell grid before the run
    clearCalls,   \* per worksheet: worksheet.clear() calls issued
    clearOk,      \* per worksheet: worksheet.clear() calls that succeeded
    updateCalls,  \* per worksheet: worksheet.update() calls issued
    lastRange,    \* per worksheet: range of the last update call
    lastValues,   \* per worksheet: grid of the last update call
    logUpdating,  \* per worksheet: "Updating worksheet" lines printed
    logSuccess    \* per worksheet: "Sheet updated successfully" lines printed

vars == <<pc, cur, retries, attempt, fails, sleeps, result, authCalls, authState,
          token, METABASE_HEADERS, sentSession, fetchCalls, response, raw, df,
          resanitized, stage, sheet, pre, clearCalls, clearOk, updateCalls,
          lastRange, lastValues, logUpdating, logSuccess>>

helperVars == <<retries, attempt, fails, sleeps, result>>
authVars == <<authCalls, authState, token, METABASE_HEADERS>>
fetchVars == <<sentSession, fetchCalls, response>>
tableVars == <<raw, df, resanitized>>
sheetVars == <<sheet, clearCalls, clearOk, updateCalls, lastRange, lastValues,
               logUpdating, logSuccess>>

-----------------------------------------------------------------------------
(* Bounds of the model *)

\* largest retries argument tried when a helper is called on its own
MaxRetries == 5
\* largest number of cells of a table handed to sanitize_df on its own
MaxCells == 3
\* rows of the wide tables (26 and 27 columns) a query may return
WideRows == 1

(* Program constants *)

DefaultRetries == 5
FetchBackoffStep == 10
WriteBackoffStep == 15
ChrBase == 64

Queries == {"Base", "RFD"}

-----------------------------------------------------------------------------
(* Cell values: Python objects as (type, value) pairs *)

None    == [t |-> "NoneType", v |-> "None"]
NaN     == [t |-> "float", v |-> "nan"]
PosInf  == [t |-> "float", v |-> "inf"]
NegInf  == [t |-> "float", v |-> "-inf"]
Float25 == [t |-> "float", v |-> "2.5"]
Int7    == [t |-> "int", v |-> "7"]
StrAbc  == [t |-> "str", v |-> "abc"]
EmptyStr == [t |-> "str", v |-> ""]
BoolTrue == [t |-> "bool", v |-> "True"]
\* a key absent from one row object of the JSON array
Missing == [t |-> "missing", v |-> "missing"]

Cells == {None, NaN, PosInf, NegInf, Float25, Int7, StrAbc, EmptyStr, BoolTrue}

isinstance_float(x) == x.t = "float"
isnan(x) == x.t = "float" /\ x.v = "nan"
isinf(x) == x.t = "float" /\ x.v \in {"inf", "-inf"}

\* Python's ==: an int and a float of the same numeric value are equal; NaN
\* equals nothing, itself included
PyEq(a, b) ==
    /\ ~isnan(a)
    /\ ~isnan(b)
    /\ \/ a = b
       \/ a.t \in {"int", "float"} /\ b.t \in {"int", "float"} /\ a.v = b.v

-----------------------------------------------------------------------------
(* Tables: ordered column names and rows, one value per column *)

ColNames == <<"c01", "c02", "c03", "c04", "c05", "c06", "c07", "c08", "c09", "c10",
              "c11", "c12", "c13", "c14", "c15", "c16", "c17", "c18", "c19", "c20",
              "c21", "c22", "c23", "c24", "c25", "c26", "c27", "c28", "c29", "c30">>

Table(cols, rows) == [cols |-> cols, rows |-> rows]
EmptyTable == Table(<<>>, <<>>)

NRows(T) == Len(T.rows)
NCols(T) == Len(T.cols)

\* faulty variant: the emptiness test never succeeds
IsEmptyNever(T) == FALSE
\* DataFrame.empty: any axis of length 0
IsEmpty(T) == NRows(T) = 0 \/ NCols(T) = 0


ColumnCells(T, j) == {T.rows[i][j] : i \in 1..NRows(T)}

\* dtype inference of pd.DataFrame(list of dicts): a column of numbers that
\* holds a float, a null or a gap becomes float64
ColIsFloat64(T, j) ==
    LET cs == ColumnCells(T, j)
        nonnull == cs \ {None, Missing}
    IN  /\ nonnull # {}
        /\ \A c \in nonnull : c.t \in {"int", "float"}
        /\ \E c \in cs : c.t = "float" \/ c \in {None, Missing}

\* pd.DataFrame(response.json()): columns are the keys, a missing key is NaN
DataFrame(body) ==
    Table(body.cols,
          [i \in 1..NRows(body) |-> [j \in 1..NCols(body) |->
              LET c == body.rows[i][j]
              IN  IF ColIsFloat64(body, j)
                  THEN IF c \in {None, Missing} THEN NaN
                       ELSE [t |-> "float", v |-> c.v]
                  ELSE IF c = Missing THEN NaN ELSE c]])

-----------------------------------------------------------------------------
(* sanitize_df *)

\* df.replace([np.inf, -np.inf], None, inplace=True): every cell equal to an
\* infinity becomes None
replace_inf_value(x) == IF PyEq(x, PosInf) \/ PyEq(x, NegInf) THEN None ELSE x

replace_inf(T) ==
    Table(T.cols, [i \in 1..NRows(T) |-> [j \in 1..NCols(T) |->
                      replace_inf_value(T.rows[i][j])]])

\* faulty variant: the None test is missing
clean_value_keeps_none(x) ==
    IF isinstance_float(x) /\ (isnan(x) \/ isinf(x)) THEN EmptyStr ELSE x
\* faulty variant: a non-finite float becomes None, as in sanitize_row
clean_value_nan_to_none(x) ==
    IF x = None THEN EmptyStr
    ELSE IF isinstance_float(x) /\ (isnan(x) \/ isinf(x)) THEN None
    ELSE x
\* clean_value, lines 79-85
clean_value(x) ==
    IF x = None THEN EmptyStr
    ELSE IF isinstance_float(x) /\ (isnan(x) \/ isinf(x)) THEN EmptyStr
    ELSE x

\* df.apply(lambda col: col.map(clean_value)): clean_value on every cell,
\* column by column; the result keeps the index and the columns
apply_clean_value(T) ==
    Table(T.cols, [i \in 1..NRows(T) |-> [j \in 1..NCols(T) |->
                      clean_value(T.rows[i][j])]])

sanitize_df(T) == apply_clean_value(replace_inf(T))

-----------------------------------------------------------------------------
(* safe_update_sheet: the grid and the range of the update call *)
\* (chr is tabulated for the codes 64..95)

\* df.values.tolist(): the frame as one array of a common dtype; a frame of
\* int and float columns only is a float array
AllNumeric(T) ==
    /\ \A i \in 1..NRows(T) : \A j \in 1..NCols(T) : T.rows[i][j].t \in {"int", "float"}
    /\ \E i \in 1..NRows(T) : \E j \in 1..NCols(T) : T.rows[i][j].t = "float"

values_tolist(T) ==
    IF AllNumeric(T)
    THEN [i \in 1..NRows(T) |-> [j \in 1..NCols(T) |->
             [t |-> "float", v |-> T.rows[i][j].v]]]
    ELSE T.rows

sanitize_row(row) ==
    [j \in 1..Len(row) |->
        IF isinstance_float(row[j]) /\ (isnan(row[j]) \/ isinf(row[j]))
        THEN None ELSE row[j]]

\* df.columns.tolist()
columns_tolist(T) == [j \in 1..NCols(T) |-> [t |-> "str", v |-> T.cols[j]]]

\* values = [header] + data_rows
Values(T) ==
    LET data_rows == values_tolist(T)
    IN  <<columns_tolist(T)>> \o [i \in 1..Len(data_rows) |-> sanitize_row(data_rows[i])]

AsciiFrom64 == <<"@", "A", "B", "C", "D", "E", "F", "G", "H", "I", "J", "K", "L", "M",
                 "N", "O", "P", "Q", "R", "S", "T", "U", "V", "W", "X", "Y", "Z",
                 "[", "\\", "]", "^", "_">>

chr(n) == AsciiFrom64[n - 63]

\* rows = len(df) + 1
RangeRows(T) == NRows(T) + 1

\* f"A1:{chr(64 + cols)}{rows}"
RangeName(cols, rows) == [start |-> "A1", endCol |-> chr(ChrBase + cols), endRow |-> rows]

NoRange == [start |-> "", endCol |-> "", endRow |-> 0]

-----------------------------------------------------------------------------
(* The worksheet as the spreadsheet service keeps it *)

Letters == <<"A", "B", "C", "D", "E", "F", "G", "H", "I", "J", "K", "L", "M",
             "N", "O", "P", "Q", "R", "S", "T", "U", "V", "W", "X", "Y", "Z">>

IsLetter(s) == \E k \in 1..Len(Letters) : Letters[k] = s
LetterIndex(s) == CHOOSE k \in 1..Len(Letters) : Letters[k] = s

\* the service parses the range and takes a grid that fits in it
RangeAccepted(range, values) ==
    /\ IsLetter(range.endCol)
    /\ Len(values) <= range.endRow
    /\ \A i \in 1..Len(values) : Len(values[i]) <= LetterIndex(range.endCol)

Max(a, b) == IF a >= b THEN a ELSE b

SheetWidth(grid) ==
    IF grid = <<>> THEN 0
    ELSE LET w == {Len(grid[i]) : i \in 1..Len(grid)}
         IN  CHOOSE m \in w : \A k \in w : k <= m

CellAt(grid, i, j) ==
    IF i <= Len(grid) /\ j <= Len(grid[i]) THEN grid[i][j] ELSE EmptyStr

\* worksheet.clear(): no cell keeps a value
Cleared == <<>>

\* worksheet.update(range, values): the cells of the grid are written from A1;
\* a null in the grid leaves its cell as it is; cells outside stay
Written(grid, values) ==
    LET h == Max(Len(grid), Len(values))
        w == Max(SheetWidth(grid), SheetWidth(values))
    IN  [i \in 1..h |-> [j \in 1..w |->
            IF i <= Len(values) /\ j <= Len(values[i]) /\ values[i][j] # None
            THEN values[i][j]
            ELSE CellAt(grid, i, j)]]

StaleCell == [t |-> "str", v |-> "stale"]
StaleGrid(r, c) == [i \in 1..r |-> [j \in 1..c |-> StaleCell]]

\* contents a worksheet may have before the run
StaleSheets == {StaleGrid(6, 3), StaleGrid(2, 1)}


-----------------------------------------------------------------------------
(* What the services may answer *)

Tokens == {"session-1", "session-2"}
NoToken == "none"

Malformed == [cols |-> <<"malformed">>, rows |-> <<>>, malformed |-> TRUE]
NoResponse == [cols |-> <<"none">>, rows |-> <<>>, malformed |-> TRUE]
Json(T) == [cols |-> T.cols, rows |-> T.rows, malformed |-> FALSE]

Cols(n) == [j \in 1..n |-> ColNames[j]]

\* 3 rows x 2 columns: a numeric column with an infinity and a null, a mixed
\* column with a gap
Body3x2 == Table(Cols(2), << <<Int7, StrAbc>>, <<PosInf, Missing>>, <<None, BoolTrue>> >>)
\* 2 rows x 3 columns of numbers only
Body2x3 == Table(Cols(3), << <<Int7, Float25, NegInf>>, <<Int7, NaN, Float25>> >>)

CellList == <<Int7, StrAbc, None, Float25, BoolTrue, NaN, EmptyStr, PosInf, NegInf>>
WideTable(n) ==
    Table(Cols(n), [i \in 1..WideRows |-> [j \in 1..n |->
                       CellList[((i + j) % Len(CellList)) + 1]]])

\* widest table addressable with one column letter, and one column more
Body26 == WideTable(Len(Letters))
Body27 == WideTable(Len(Letters) + 1)

\* what a query may answer: no row, its rows, or a body that is not JSON
Bodies(q) ==
    {Json(EmptyTable), Json(IF q = "Base" THEN Body3x2 ELSE Body2x3), Malformed}

NoTable == EmptyTable

-----------------------------------------------------------------------------
(* Metabase login, lines 42-57 *)

LoginOk ==
    /\ pc = "login"
    /\ \E tok \in Tokens :
        /\ token' = tok
        /\ METABASE_HEADERS' = [session |-> tok]
    /\ authCalls' = authCalls + 1
    /\ authState' = "ok"
    /\ pc' = "connect"
    /\ UNCHANGED <<cur, helperVars, fetchVars, tableVars, stage, sheetVars, pre>>

\* faulty variant: the failure of the login is not raised
LoginFailIgnored ==
    /\ pc = "login"
    /\ authCalls' = authCalls + 1
    /\ authState' = "failed"
    /\ pc' = "connect"
    /\ UNCHANGED <<cur, token, METABASE_HEADERS, helperVars, fetchVars, tableVars,
                   stage, sheetVars, pre>>
\* requests.post raises, raise_for_status raises, or the body has no 'id'
LoginFail ==
    /\ pc = "login"
    /\ \E kind \in {"transport", "status", "body"} : TRUE
    /\ authCalls' = authCalls + 1
    /\ authState' = "failed"
    /\ pc' = "aborted"
    /\ UNCHANGED <<cur, token, METABASE_HEADERS, helperVars, fetchVars, tableVars,
                   stage, sheetVars, pre>>

(* gc.open_by_key and sheet.worksheet, lines 135-138; then the call of line 142 *)

ConnectOk ==
    /\ pc = "connect"
    /\ cur' = "Base"
    /\ retries' = DefaultRetries
    /\ attempt' = 0
    /\ fails' = 0
    /\ sleeps' = <<>>
    /\ result' = "pending"
    /\ pc' = "fetch_loop"
    /\ UNCHANGED <<authVars, fetchVars, tableVars, stage, sheetVars, pre>>

ConnectFail ==
    /\ pc = "connect"
    /\ pc' = "aborted"
    /\ UNCHANGED <<cur, helperVars, authVars, fetchVars, tableVars, stage, sheetVars, pre>>

-----------------------------------------------------------------------------
(* fetch_with_retry, lines 60-73 *)

\* for attempt in range(1, retries + 1); falling off the loop returns None
FetchLoop(ret) ==
    /\ pc = "fetch_loop"
    /\ IF attempt < retries
       THEN /\ attempt' = attempt + 1
            /\ pc' = "fetch_post"
            /\ UNCHANGED <<result, response>>
       ELSE /\ result' = "None"
            /\ response' = [response EXCEPT ![cur] = NoResponse]
            /\ pc' = ret
            /\ UNCHANGED attempt
    /\ UNCHANGED <<cur, retries, fails, sleeps, authVars, sentSession, fetchCalls,
                   tableVars, stage, sheetVars, pre>>

\* the post returns and raise_for_status passes: return response
FetchPostOk(ret) ==
    /\ pc = "fetch_post"
    /\ \E body \in Bodies(cur) : response' = [response EXCEPT ![cur] = body]
    /\ fetchCalls' = [fetchCalls EXCEPT ![cur] = @ + 1]
    /\ sentSession' = [sentSession EXCEPT ![cur] = METABASE_HEADERS.session]
    /\ result' = "response"
    /\ stage' = [stage EXCEPT ![cur] = "fetched"]
    /\ pc' = ret
    /\ UNCHANGED <<cur, retries, attempt, fails, sleeps, authVars, tableVars,
                   sheetVars, pre>>

\* the post raises (transport, timeout) or raise_for_status raises
FetchPostFail ==
    /\ pc = "fetch_post"
    /\ \E kind \in {"transport", "status"} : TRUE
    /\ fetchCalls' = [fetchCalls EXCEPT ![cur] = @ + 1]
    /\ sentSession' = [sentSession EXCEPT ![cur] = METABASE_HEADERS.session]
    /\ fails' = fails + 1
    /\ pc' = "fetch_except"
    /\ UNCHANGED <<cur, retries, attempt, sleeps, result, authVars, response,
                   tableVars, stage, sheetVars, pre>>

\* faulty variant: the wait does not grow with the attempt
FetchWaitTimeFlat(a) == FetchBackoffStep
\* wait_time = 10 * attempt
FetchWaitTime(a) == FetchBackoffStep * a

\* faulty variant: the comparison is <= instead of <
AttemptsRemainInclusive(a, r) == a <= r
\* if attempt < retries
AttemptsRemain(a, r) == a < r

\* the except clause: sleep and go round again, or re-raise
FetchExcept(exc) ==
    /\ pc = "fetch_except"
    /\ IF AttemptsRemain(attempt, retries)
       THEN /\ sleeps' = Append(sleeps, FetchWaitTime(attempt))
            /\ pc' = "fetch_sleep"
            /\ UNCHANGED result
       ELSE /\ result' = "raised"
            /\ pc' = exc
            /\ UNCHANGED sleeps
    /\ UNCHANGED <<cur, retries, attempt, fails, authVars, fetchVars, tableVars,
                   stage, sheetVars, pre>>

\* faulty variant: after the sleep the helper starts over from its first attempt
FetchSleepDoneRestarts ==
    /\ pc = "fetch_sleep"
    /\ attempt' = 0
    /\ pc' = "fetch_loop"
    /\ UNCHANGED <<cur, retries, fails, sleeps, result, authVars, fetchVars, tableVars,
                   stage, sheetVars, pre>>
\* time.sleep returns
FetchSleepDone ==
    /\ pc = "fetch_sleep"
    /\ pc' = "fetch_loop"
    /\ UNCHANGED <<cur, helperVars, authVars, fetchVars, tableVars, stage, sheetVars, pre>>


-----------------------------------------------------------------------------
(* The run: lines 143-151 for Base, 156-164 for RFD *)

\* pd.DataFrame(response.json())
ParseOk ==
    /\ pc = "parse"
    /\ ~response[cur].malformed
    /\ raw' = [raw EXCEPT ![cur] = DataFrame(response[cur])]
    /\ stage' = [stage EXCEPT ![cur] = "parsed"]
    /\ pc' = "check_empty"
    /\ UNCHANGED <<cur, helperVars, authVars, fetchVars, df, resanitized, sheetVars, pre>>

\* faulty variant: a body that does not parse sends the fetch round again
ParseFailRefetch ==
    /\ pc = "parse"
    /\ response[cur].malformed
    /\ pc' = "fetch_loop"
    /\ UNCHANGED <<cur, helperVars, authVars, fetchVars, tableVars, stage, sheetVars, pre>>
\* faulty variant: the parse failure is swallowed and the run goes on
ParseFailSkips ==
    /\ pc = "parse"
    /\ response[cur].malformed
    /\ pc' = "next_query"
    /\ UNCHANGED <<cur, helperVars, authVars, fetchVars, tableVars, stage, sheetVars, pre>>
\* response.json() raises on a body that is not JSON (and on a None response)
ParseFail ==
    /\ pc = "parse"
    /\ response[cur].malformed
    /\ pc' = "aborted"
    /\ UNCHANGED <<cur, helperVars, authVars, fetchVars, tableVars, stage, sheetVars, pre>>

\* faulty variant: the script ends after the warning
SkipEmptyStops ==
    /\ pc = "check_empty"
    /\ IsEmpty(raw[cur])
    /\ stage' = [stage EXCEPT ![cur] = "empty"]
    /\ pc' = "done"
    /\ UNCHANGED <<cur, helperVars, authVars, fetchVars, tableVars, sheetVars, pre>>
\* if df.empty: only the warning is printed
SkipEmpty ==
    /\ pc = "check_empty"
    /\ IsEmpty(raw[cur])
    /\ stage' = [stage EXCEPT ![cur] = "empty"]
    /\ pc' = "next_query"
    /\ UNCHANGED <<cur, helperVars, authVars, fetchVars, tableVars, sheetVars, pre>>

\* else: df = sanitize_df(df), then the call safe_update_sheet(ws, df)
SanitizeAndCall ==
    /\ pc = "check_empty"
    /\ ~IsEmpty(raw[cur])
    /\ df' = [df EXCEPT ![cur] = sanitize_df(raw[cur])]
    /\ stage' = [stage EXCEPT ![cur] = "sanitized"]
    /\ retries' = DefaultRetries
    /\ attempt' = 0
    /\ fails' = 0
    /\ sleeps' = <<>>
    /\ result' = "pending"
    /\ pc' = "write_entry"
    /\ UNCHANGED <<cur, authVars, fetchVars, raw, resanitized, sheetVars, pre>>

\* line 155: the RFD query follows the Base query
StartRFD ==
    /\ pc = "next_query"
    /\ cur = "Base"
    /\ cur' = "RFD"
    /\ retries' = DefaultRetries
    /\ attempt' = 0
    /\ fails' = 0
    /\ sleeps' = <<>>
    /\ result' = "pending"
    /\ pc' = "fetch_loop"
    /\ UNCHANGED <<authVars, fetchVars, tableVars, stage, sheetVars, pre>>

\* lines 167-172: the timer summary and the completion message
Finish ==
    /\ pc = "next_query"
    /\ cur = "RFD"
    /\ pc' = "done"
    /\ UNCHANGED <<cur, helperVars, authVars, fetchVars, tableVars, stage, sheetVars, pre>>

-----------------------------------------------------------------------------
(* safe_update_sheet, lines 91-131 *)
(* A call of the service that raises has changed nothing in the worksheet. *)

\* line 92, once per call
WriteEntry ==
    /\ pc = "write_entry"
    /\ logUpdating' = [logUpdating EXCEPT ![cur] = @ + 1]
    /\ pc' = "write_loop"
    /\ UNCHANGED <<cur, helperVars, authVars, fetchVars, tableVars, stage, sheet, pre,
                   clearCalls, clearOk, updateCalls, lastRange, lastValues, logSuccess>>

\* faulty variant: the title is printed again at the start of every attempt
WriteLoopLogs(ret) ==
    /\ pc = "write_loop"
    /\ IF attempt < retries
       THEN /\ attempt' = attempt + 1
            /\ logUpdating' = [logUpdating EXCEPT ![cur] = @ + 1]
            /\ pc' = "write_clear"
            /\ UNCHANGED result
       ELSE /\ result' = "None"
            /\ pc' = ret
            /\ UNCHANGED <<attempt, logUpdating>>
    /\ UNCHANGED <<cur, retries, fails, sleeps, authVars, fetchVars, tableVars, stage,
                   sheet, clearCalls, clearOk, updateCalls, lastRange, lastValues,
                   logSuccess, pre>>
\* for attempt in range(1, retries + 1); falling off the loop returns None
WriteLoop(ret) ==
    /\ pc = "write_loop"
    /\ IF attempt < retries
       THEN /\ attempt' = attempt + 1
            /\ pc' = "write_clear"
            /\ UNCHANGED result
       ELSE /\ result' = "None"
            /\ pc' = ret
            /\ UNCHANGED attempt
    /\ UNCHANGED <<cur, retries, fails, sleeps, authVars, fetchVars, tableVars, stage,
                   sheetVars, pre>>

\* faulty variant: the clear leaves the cells in place
ClearSkipped ==
    /\ pc = "write_clear"
    /\ clearCalls' = [clearCalls EXCEPT ![cur] = @ + 1]
    /\ clearOk' = [clearOk EXCEPT ![cur] = @ + 1]
    /\ pc' = "write_update"
    /\ UNCHANGED <<cur, helperVars, authVars, fetchVars, tableVars, stage, sheet, pre,
                   updateCalls, lastRange, lastValues, logUpdating, logSuccess>>
\* worksheet.clear() returns
ClearOk ==
    /\ pc = "write_clear"
    /\ clearCalls' = [clearCalls EXCEPT ![cur] = @ + 1]
    /\ clearOk' = [clearOk EXCEPT ![cur] = @ + 1]
    /\ sheet' = [sheet EXCEPT ![cur] = Cleared]
    /\ pc' = "write_update"
    /\ UNCHANGED <<cur, helperVars, authVars, fetchVars, tableVars, stage, pre,
                   updateCalls, lastRange, lastValues, logUpdating, logSuccess>>

\* faulty variant: a failing clear is passed over and the update still issued
ClearFailIgnored ==
    /\ pc = "write_clear"
    /\ clearCalls' = [clearCalls EXCEPT ![cur] = @ + 1]
    /\ pc' = "write_update"
    /\ UNCHANGED <<cur, helperVars, authVars, fetchVars, tableVars, stage, sheet, pre,
                   clearOk, updateCalls, lastRange, lastValues, logUpdating, logSuccess>>
\* worksheet.clear() raises
ClearFail ==
    /\ pc = "write_clear"
    /\ clearCalls' = [clearCalls EXCEPT ![cur] = @ + 1]
    /\ fails' = fails + 1
    /\ pc' = "write_except"
    /\ UNCHANGED <<cur, retries, attempt, sleeps, result, authVars, fetchVars, tableVars,
                   stage, sheet, pre, clearOk, updateCalls, lastRange, lastValues,
                   logUpdating, logSuccess>>

\* faulty variant: every update goes to the Base worksheet
UpdateOkOnBase(ret) ==
    /\ pc = "write_update"
    /\ \E range \in {RangeName(NCols(df[cur]), RangeRows(df[cur]))},
          values \in {Values(df[cur])} :
           /\ RangeAccepted(range, values)
           /\ lastRange' = [lastRange EXCEPT ![cur] = range]
           /\ lastValues' = [lastValues EXCEPT ![cur] = values]
           /\ sheet' = [sheet EXCEPT !["Base"] = Written(sheet["Base"], values)]
    /\ updateCalls' = [updateCalls EXCEPT ![cur] = @ + 1]
    /\ logSuccess' = [logSuccess EXCEPT ![cur] = @ + 1]
    /\ result' = "True"
    /\ stage' = [stage EXCEPT ![cur] = "written"]
    /\ pc' = ret
    /\ UNCHANGED <<cur, retries, attempt, fails, sleeps, authVars, fetchVars, tableVars,
                   pre, clearCalls, clearOk, logUpdating>>
\* worksheet.update(range, values) returns; the success line; return True
UpdateOk(ret) ==
    /\ pc = "write_update"
    /\ \E range \in {RangeName(NCols(df[cur]), RangeRows(df[cur]))},
          values \in {Values(df[cur])} :
           /\ RangeAccepted(range, values)
           /\ lastRange' = [lastRange EXCEPT ![cur] = range]
           /\ lastValues' = [lastValues EXCEPT ![cur] = values]
           /\ sheet' = [sheet EXCEPT ![cur] = Written(sheet[cur], values)]
    /\ updateCalls' = [updateCalls EXCEPT ![cur] = @ + 1]
    /\ logSuccess' = [logSuccess EXCEPT ![cur] = @ + 1]
    /\ result' = "True"
    /\ stage' = [stage EXCEPT ![cur] = "written"]
    /\ pc' = ret
    /\ UNCHANGED <<cur, retries, attempt, fails, sleeps, authVars, fetchVars, tableVars,
                   pre, clearCalls, clearOk, logUpdating>>

\* faulty variant: a failed update puts the pre-run cells back
UpdateFailRestores ==
    /\ pc = "write_update"
    /\ lastRange' = [lastRange EXCEPT ![cur] =
                        RangeName(NCols(df[cur]), RangeRows(df[cur]))]
    /\ lastValues' = [lastValues EXCEPT ![cur] = Values(df[cur])]
    /\ updateCalls' = [updateCalls EXCEPT ![cur] = @ + 1]
    /\ sheet' = [sheet EXCEPT ![cur] = pre[cur]]
    /\ fails' = fails + 1
    /\ pc' = "write_except"
    /\ UNCHANGED <<cur, retries, attempt, sleeps, result, authVars, fetchVars, tableVars,
                   stage, pre, clearCalls, clearOk, logUpdating, logSuccess>>
\* worksheet.update(range, values) raises
UpdateFail ==
    /\ pc = "write_update"
    /\ lastRange' = [lastRange EXCEPT ![cur] =
                        RangeName(NCols(df[cur]), RangeRows(df[cur]))]
    /\ lastValues' = [lastValues EXCEPT ![cur] = Values(df[cur])]
    /\ updateCalls' = [updateCalls EXCEPT ![cur] = @ + 1]
    /\ fails' = fails + 1
    /\ pc' = "write_except"
    /\ UNCHANGED <<cur, retries, attempt, sleeps, result, authVars, fetchVars, tableVars,
                   stage, sheet, pre, clearCalls, clearOk, logUpdating, logSuccess>>

\* wait_time = 15 * attempt
WriteWaitTime(a) == WriteBackoffStep * a

\* faulty variant: the last failure is not re-raised and the run goes on
WriteExceptSwallows(exc) ==
    /\ pc = "write_except"
    /\ IF AttemptsRemain(attempt, retries)
       THEN /\ sleeps' = Append(sleeps, WriteWaitTime(attempt))
            /\ pc' = "write_sleep"
            /\ UNCHANGED result
       ELSE /\ result' = "None"
            /\ pc' = "next_query"
            /\ UNCHANGED sleeps
    /\ UNCHANGED <<cur, retries, attempt, fails, authVars, fetchVars, tableVars, stage,
                   sheetVars, pre>>
\* the except clause: sleep and go round again, or re-raise
WriteExcept(exc) ==
    /\ pc = "write_except"
    /\ IF AttemptsRemain(attempt, retries)
       THEN /\ sleeps' = Append(sleeps, WriteWaitTime(attempt))
            /\ pc' = "write_sleep"
            /\ UNCHANGED result
       ELSE /\ result' = "raised"
            /\ pc' = exc
            /\ UNCHANGED sleeps
    /\ UNCHANGED <<cur, retries, attempt, fails, authVars, fetchVars, tableVars, stage,
                   sheetVars, pre>>

\* time.sleep returns
WriteSleepDone ==
    /\ pc = "write_sleep"
    /\ pc' = "write_loop"
    /\ UNCHANGED <<cur, helperVars, authVars, fetchVars, tableVars, stage, sheetVars, pre>>

-----------------------------------------------------------------------------
(* The run of the script *)

PerQuery(x) == [q \in Queries |-> x]

InitCommon ==
    /\ attempt = 0
    /\ fails = 0
    /\ sleeps = <<>>
    /\ result = "pending"
    /\ authCalls = 0
    /\ sentSession = PerQuery(NoToken)
    /\ fetchCalls = PerQuery(0)
    /\ response = PerQuery(NoResponse)
    /\ raw = PerQuery(NoTable)
    /\ resanitized = NoTable
    /\ stage = PerQuery("pending")
    /\ pre \in {p \in [Queries -> StaleSheets] : p["Base"] # p["RFD"]}
    /\ sheet = pre
    /\ clearCalls = PerQuery(0)
    /\ clearOk = PerQuery(0)
    /\ updateCalls = PerQuery(0)
    /\ lastRange = PerQuery(NoRange)
    /\ lastValues = PerQuery(<<>>)
    /\ logUpdating = PerQuery(0)
    /\ logSuccess = PerQuery(0)

\* the configuration is read and the Google client is authorised (lines 15-37);
\* the next statement is the login request of line 42
Init ==
    /\ InitCommon
    /\ pc = "login"
    /\ cur = "Base"
    /\ retries = DefaultRetries
    /\ authState = "none"
    /\ token = NoToken
    /\ METABASE_HEADERS = [session |-> NoToken]
    /\ df = PerQuery(NoTable)

Next ==
    \/ LoginOk
    \/ LoginFail
    \/ ConnectOk
    \/ ConnectFail
    \/ FetchLoop("parse")
    \/ FetchPostOk("parse")
    \/ FetchPostFail
    \/ FetchExcept("aborted")
    \/ FetchSleepDone
    \/ ParseOk
    \/ ParseFail
    \/ SkipEmpty
    \/ SanitizeAndCall
    \/ WriteEntry
    \/ WriteLoop("next_query")
    \/ ClearOk
    \/ ClearFail
    \/ UpdateOk("next_query")
    \/ UpdateFail
    \/ WriteExcept("aborted")
    \/ WriteSleepDone
    \/ StartRFD
    \/ Finish

Spec == Init /\ [][Next]_vars

\* every network call and every sleep returns: a step that can be taken is taken
SpecLive == Spec /\ WF_vars(Next)


-----------------------------------------------------------------------------
(* A helper called on its own, with any retries argument *)

\* tables handed to safe_update_sheet: sanitised or not, up to one column more
\* than the letters reach
HelperTables ==
    {DataFrame(Body3x2), sanitize_df(DataFrame(Body3x2)), DataFrame(Body2x3),
     Body26, sanitize_df(Body26), Body27}

InitHelpers ==
    /\ InitCommon
    /\ cur = "Base"
    /\ retries \in 0..MaxRetries
    /\ authState = "ok"
    /\ token \in Tokens
    /\ METABASE_HEADERS = [session |-> token]
    /\ \/ /\ pc = "fetch_loop"
          /\ df = PerQuery(NoTable)
       \/ /\ pc = "write_entry"
          /\ \E T \in HelperTables : df = [PerQuery(NoTable) EXCEPT ![cur] = T]

NextHelpers ==
    \/ FetchLoop("returned")
    \/ FetchPostOk("returned")
    \/ FetchPostFail
    \/ FetchExcept("raised")
    \/ FetchSleepDone
    \/ WriteEntry
    \/ WriteLoop("returned")
    \/ ClearOk
    \/ ClearFail
    \/ UpdateOk("returned")
    \/ UpdateFail
    \/ WriteExcept("raised")
    \/ WriteSleepDone

SpecHelpers == InitHelpers /\ [][NextHelpers]_vars

-----------------------------------------------------------------------------
(* sanitize_df on its own, applied once and then again to its own result *)

Shapes == {<<r, c>> \in (0..MaxCells) \X (0..MaxCells) : r * c <= MaxCells}

SanitizeTables ==
    UNION {{Table(Cols(s[2]), rows) : rows \in [1..s[1] -> [1..s[2] -> Cells]]} : s \in Shapes}

InitSanitize ==
    /\ InitCommon
    /\ pc = "sanitize"
    /\ cur = "Base"
    /\ retries = DefaultRetries
    /\ authState = "none"
    /\ token = NoToken
    /\ METABASE_HEADERS = [session |-> NoToken]
    /\ df \in {[PerQuery(NoTable) EXCEPT ![cur] = T] : T \in SanitizeTables}

SanitizeOnce ==
    /\ pc = "sanitize"
    /\ raw' = [raw EXCEPT ![cur] = df[cur]]
    /\ df' = [df EXCEPT ![cur] = sanitize_df(df[cur])]
    /\ pc' = "sanitized"
    /\ UNCHANGED <<cur, helperVars, authVars, fetchVars, resanitized, stage, sheetVars, pre>>

SanitizeAgain ==
    /\ pc = "sanitized"
    /\ resanitized' = sanitize_df(df[cur])
    /\ pc' = "resanitized"
    /\ UNCHANGED <<cur, helperVars, authVars, fetchVars, raw, df, stage, sheetVars, pre>>

NextSanitize ==
    \/ SanitizeOnce
    \/ SanitizeAgain

SpecSanitize == InitSanitize /\ [][NextSanitize]_vars


-----------------------------------------------------------------------------
(* Properties *)

NonFinite(x) == isnan(x) \/ isinf(x)

\* how a worksheet cell shows a table cell: a null or non-finite value as an
\* empty cell, anything else as the value itself
Shown(cell, x) == IF x = None \/ NonFinite(x) THEN cell = EmptyStr ELSE PyEq(cell, x)

\* the grid is the header of T followed by the rows of T, and nothing else
HoldsTable(grid, T) ==
    /\ Len(grid) = NRows(T) + 1
    /\ \A i \in 1..Len(grid) : Len(grid[i]) = NCols(T)
    /\ \A j \in 1..NCols(T) : grid[1][j] = [t |-> "str", v |-> T.cols[j]]
    /\ \A i \in 1..NRows(T) : \A j \in 1..NCols(T) : Shown(grid[i + 1][j], T.rows[i][j])

\* the query's response was parsed
Parsed(q) == stage[q] \notin {"pending", "fetched"}

\* C1: a query whose parsed result has zero rows has no clear call and no
\* update call issued on its worksheet, and the worksheet keeps its pre-run
\* contents to the end of the run.
C1_EmptyResultUntouched ==
    \A q \in Queries :
        (Parsed(q) /\ NRows(raw[q]) = 0) =>
            /\ clearCalls[q] = 0
            /\ updateCalls[q] = 0
            /\ sheet[q] = pre[q]

C1_Witness ==
    /\ pc = "done"
    /\ Parsed("RFD") /\ NRows(raw["RFD"]) = 0
    /\ stage["Base"] = "written"

\* C2: when safe_update_sheet succeeds on a worksheet holding stale rows, with
\* a table of R >= 1 rows and 1 <= C <= 26 columns, the worksheet holds exactly
\* the header and the R rows in order, no stale cell, and the update call was
\* addressed to A1:<C-th letter><R+1>.
C2_OverwriteExact ==
    (pc = "returned" /\ result = "True") =>
        LET T == df[cur]
        IN  (NRows(T) >= 1 /\ NCols(T) >= 1 /\ NCols(T) <= 26) =>
                /\ HoldsTable(sheet[cur], T)
                /\ \A i \in 1..Len(sheet[cur]) : \A j \in 1..Len(sheet[cur][i]) :
                       sheet[cur][i][j] # StaleCell
                /\ updateCalls[cur] >= 1
                /\ lastRange[cur] = [start |-> "A1", endCol |-> Letters[NCols(T)],
                                     endRow |-> NRows(T) + 1]

C2_Witness ==
    /\ pc = "returned"
    /\ result = "True"
    /\ pre[cur] = StaleGrid(6, 3)
    /\ NRows(df[cur]) = 3
    /\ lastRange[cur] = [start |-> "A1", endCol |-> "B", endRow |-> 4]

HelperCalls == fetchCalls[cur] + clearCalls[cur]

\* C3: a helper whose operation fails on attempts 1..N-1 and succeeds on
\* attempt N <= retries returns the success after exactly N attempts and N-1
\* sleeps, the k-th sleep being 10*k (fetch) or 15*k (write), strictly
\* increasing.
C3_SuccessAfterRetries ==
    (pc = "returned" /\ result \in {"response", "True"}) =>
        LET N == attempt
            step == IF result = "response" THEN 10 ELSE 15
        IN  /\ N >= 1
            /\ N <= retries
            /\ fails = N - 1
            /\ HelperCalls = N
            /\ Len(sleeps) = N - 1
            /\ \A k \in 1..(N - 1) : sleeps[k] = step * k
            /\ \A k \in 1..(N - 2) : sleeps[k] < sleeps[k + 1]

C3_Witness ==
    /\ pc = "returned"
    /\ result = "response"
    /\ fails = 4
    /\ sleeps = <<10, 20, 30, 40>>

\* C4: a helper (retries >= 1) whose operation fails on every attempt makes
\* exactly retries attempts and retries-1 sleeps, then propagates the failure;
\* it does not sleep after the last failure and does not return.
C4_ExhaustionPropagates ==
    /\ pc = "raised" =>
           /\ retries >= 1
           /\ result = "raised"
           /\ attempt = retries
           /\ fails = retries
           /\ HelperCalls = retries
           /\ Len(sleeps) = retries - 1
    /\ (retries >= 1 /\ fails >= retries) =>
           /\ pc \in {"fetch_except", "write_except", "raised"}
           /\ Len(sleeps) = retries - 1
    /\ (retries >= 1 /\ pc = "returned") => result \in {"response", "True"}

C4_Witness ==
    /\ pc = "raised"
    /\ retries = 5
    /\ clearCalls[cur] = 5
    /\ updateCalls[cur] = 2
    /\ sleeps = <<15, 30, 45, 60>>

\* a column name of one or two letters
IsColumnName(s) ==
    \/ IsLetter(s)
    \/ \E a \in 1..Len(Letters) : \E b \in 1..Len(Letters) : s = Letters[a] \o Letters[b]

\* C5: no update call is issued with a range whose end column is not a column
\* name: 26 columns end in Z, wider tables are rejected or addressed with a
\* multi-letter column.
C5_NoLetterOverflow ==
    \A q \in Queries :
        updateCalls[q] > 0 =>
            /\ IsColumnName(lastRange[q].endCol)
            /\ NCols(df[q]) = 26 => lastRange[q].endCol = "Z"


\* C6: sanitize_df keeps the shape and the columns of its table, leaves no NaN
\* and no infinity, maps every null or missing cell to the empty string, and
\* leaves every finite number, string and boolean unchanged.
C6_SanitizeCells ==
    (pc \in {"sanitized", "resanitized"}) =>
        LET T == raw[cur]
            S == df[cur]
        IN  /\ S.cols = T.cols
            /\ Len(S.rows) = Len(T.rows)
            /\ \A i \in 1..Len(T.rows) :
                   /\ Len(S.rows[i]) = Len(T.rows[i])
                   /\ \A j \in 1..Len(T.rows[i]) :
                          LET x == T.rows[i][j]
                              y == S.rows[i][j]
                          IN  /\ ~NonFinite(y)
                              /\ y # None
                              /\ (x = None \/ isnan(x)) => y = EmptyStr
                              /\ (x # None /\ ~NonFinite(x)) => y = x

C6_Witness ==
    /\ pc = "sanitized"
    /\ raw[cur].rows = << <<None, PosInf, Int7>> >>
    /\ df[cur].rows = << <<EmptyStr, EmptyStr, Int7>> >>

\* C7: sanitize_df applied to its own result changes no cell.
C7_SanitizeIdempotent ==
    pc = "resanitized" => resanitized = df[cur]

C7_Witness ==
    /\ pc = "resanitized"
    /\ raw[cur].rows = << <<NaN>>, <<None>>, <<NegInf>> >>
    /\ resanitized.rows = << <<EmptyStr>>, <<EmptyStr>>, <<EmptyStr>> >>

\* the Base result was parsed and has zero rows
BaseEmpty == Parsed("Base") /\ NRows(raw["Base"]) = 0

\* C8: when the Base query returns zero rows the run goes on to fetch the RFD
\* query and aborts only on an RFD failure; if the non-empty RFD result is
\* written the run completes, the Base worksheet has its pre-run contents and
\* the RFD worksheet holds exactly the header and the RFD rows.
C8_EmptyThenWritten ==
    BaseEmpty =>
        /\ sheet["Base"] = pre["Base"]
        /\ (pc = "next_query" /\ cur = "Base") => ENABLED StartRFD
        /\ pc = "aborted" => (cur = "RFD" /\ stage["RFD"] \notin {"empty", "written"})
        /\ pc = "done" => (cur = "RFD" /\ fetchCalls["RFD"] >= 1)
        /\ stage["RFD"] = "written" =>
               /\ pc \in {"next_query", "done"}
               /\ pc = "next_query" => ENABLED Finish
               /\ fetchCalls["RFD"] >= 1
               /\ NRows(raw["RFD"]) >= 1
               /\ HoldsTable(sheet["RFD"], raw["RFD"])

C8_Witness ==
    /\ pc = "done"
    /\ BaseEmpty
    /\ stage["RFD"] = "written"
    /\ sheet["Base"] = pre["Base"]
    /\ sheet["RFD"] # pre["RFD"]

\* C9: one login request per run, never retried; if it fails the run aborts
\* with no fetch attempt and no worksheet cleared or written; a fetch is only
\* issued after a successful login and carries the token the login returned.
C9_LoginOnce ==
    /\ authCalls <= 1
    /\ pc # "login" => authCalls = 1
    /\ authState = "failed" =>
           /\ pc = "aborted"
           /\ \A q \in Queries :
                  /\ fetchCalls[q] = 0
                  /\ clearCalls[q] = 0
                  /\ updateCalls[q] = 0
                  /\ sheet[q] = pre[q]
    /\ \A q \in Queries :
           fetchCalls[q] > 0 =>
               /\ authState = "ok"
               /\ token \in Tokens
               /\ sentSession[q] = token

C9_Witness ==
    /\ pc = "aborted"
    /\ authState = "failed"
    /\ authCalls = 1

\* C10: a fetch or a write that has failed on all its attempts aborts the run;
\* after an abort while processing Base the RFD query was never fetched and its
\* worksheet never cleared or written; after an abort while processing RFD a
\* Base worksheet written in this run still holds the header and the Base rows.
C10_FatalAborts ==
    /\ fails >= retries => pc \in {"fetch_except", "write_except", "aborted"}
    /\ result = "raised" => pc = "aborted"
    /\ (pc = "aborted" /\ cur = "Base") =>
           /\ fetchCalls["RFD"] = 0
           /\ clearCalls["RFD"] = 0
           /\ updateCalls["RFD"] = 0
           /\ sheet["RFD"] = pre["RFD"]
    /\ (pc = "aborted" /\ cur = "RFD" /\ stage["Base"] = "written") =>
           HoldsTable(sheet["Base"], raw["Base"])

C10_Witness ==
    /\ pc = "aborted"
    /\ cur = "RFD"
    /\ result = "raised"
    /\ stage["Base"] = "written"
    /\ clearCalls["RFD"] = 5


\* number of service calls issued so far
IOCount ==
    authCalls + fetchCalls["Base"] + fetchCalls["RFD"] + clearCalls["Base"]
    + clearCalls["RFD"] + updateCalls["Base"] + updateCalls["RFD"]

BaseCalls == <<fetchCalls["Base"], clearCalls["Base"], updateCalls["Base"]>>

C11_OrderState ==
    /\ \A q \in Queries : fetchCalls[q] > 0 => (authCalls = 1 /\ authState = "ok")
    /\ \A q \in Queries :
           (clearCalls[q] > 0 \/ updateCalls[q] > 0) =>
               /\ stage[q] \in {"sanitized", "written"}
               /\ NRows(raw[q]) >= 1
    /\ fetchCalls["RFD"] > 0 => (cur = "RFD" /\ stage["Base"] \in {"empty", "written"})
    /\ cur = "Base" =>
           (fetchCalls["RFD"] = 0 /\ clearCalls["RFD"] = 0 /\ updateCalls["RFD"] = 0)

C11_OrderStep ==
    /\ IOCount' <= IOCount + 1
    /\ sleeps' # sleeps => IOCount' = IOCount
    /\ IOCount > 0 => authCalls' = authCalls
    /\ \A q \in Queries : clearCalls[q] > 0 => fetchCalls'[q] = fetchCalls[q]
    /\ cur = "RFD" => BaseCalls' = BaseCalls

\* C11: the service calls of a run come in the order login, Base fetches,
\* Base clears and updates, RFD fetches, RFD clears and updates: no RFD fetch
\* before Base processing has ended, no clear or update of a worksheet before
\* its own query was fetched, and every step issues at most one call.
C11_StrictOrder == []C11_OrderState /\ [][C11_OrderStep]_vars

C11_Witness ==
    /\ pc = "done"
    /\ stage["Base"] = "written"
    /\ stage["RFD"] = "written"
    /\ fetchCalls["Base"] = 2
    /\ clearCalls["Base"] = 2
    /\ fetchCalls["RFD"] = 3
    /\ updateCalls["RFD"] = 2


\* C12: the write is clear-then-update with no atomic swap: an update is only
\* issued after the clear of its attempt; once a clear has succeeded the
\* worksheet is empty, its pre-run rows gone, until an update succeeds; if every
\* attempt clears and then fails to update, the run aborts with the worksheet
\* empty.
C12_ClearThenUpdate ==
    \A q \in Queries :
        /\ updateCalls[q] <= clearOk[q]
        /\ (pc = "write_update" /\ cur = q) =>
               (clearCalls[q] = attempt /\ updateCalls[q] < attempt)
        /\ (clearOk[q] > 0 /\ stage[q] # "written") =>
               (sheet[q] = Cleared /\ sheet[q] # pre[q])
        /\ (updateCalls[q] = DefaultRetries /\ stage[q] # "written") =>
               /\ pc \in {"write_except", "aborted"}
               /\ cur = q
               /\ sheet[q] = Cleared
        /\ stage[q] = "written" => sheet[q] # Cleared

C12_Witness ==
    /\ pc = "aborted"
    /\ cur = "Base"
    /\ result = "raised"
    /\ clearOk["Base"] = 5
    /\ updateCalls["Base"] = 5
    /\ sheet["Base"] = Cleared
    /\ pre["Base"] = StaleGrid(6, 3)


\* the grid of the last update call on worksheet q is the header of df[q]
\* followed by its rows in order, R+1 rows of C cells, every non-finite float
\* replaced by None and every other cell equal to the cell of the table
C13_GridContent(q) ==
    LET T == df[q]
        grid == lastValues[q]
    IN  /\ Len(grid) = NRows(T) + 1
        /\ \A i \in 1..Len(grid) : Len(grid[i]) = NCols(T)
        /\ \A j \in 1..NCols(T) : grid[1][j] = [t |-> "str", v |-> T.cols[j]]
        /\ \A i \in 1..NRows(T) : \A j \in 1..NCols(T) :
               LET x == T.rows[i][j]
                   y == grid[i + 1][j]
               IN  /\ ~NonFinite(y)
                   /\ NonFinite(x) => y = None
                   /\ ~NonFinite(x) => (y = x \/ PyEq(y, x))

C13_GridContentHolds == \A q \in Queries : updateCalls[q] > 0 => C13_GridContent(q)

\* C13: every grid submitted in an update call is the header followed by the
\* data rows in order, R+1 rows of C cells matching the addressed range, with
\* every NaN or infinite float replaced by None and every other cell unchanged.
C13_GridMatchesRange ==
    \A q \in Queries :
        updateCalls[q] > 0 =>
            /\ C13_GridContent(q)
            /\ lastRange[q].start = "A1"
            /\ lastRange[q].endRow = Len(lastValues[q])
            /\ IsLetter(lastRange[q].endCol)
            /\ LetterIndex(lastRange[q].endCol) = NCols(df[q])


\* the other query, processed after q if q is Base
LaterQueries(q) == IF q = "Base" THEN {"RFD"} ELSE {}

\* C14: a response received successfully whose body does not parse is not
\* fetched again: the query has the fetch attempts up to the successful one and
\* no more, the run aborts, and neither that query's worksheet nor a later
\* query's is cleared or written.
C14_ParseFailureNotRetried ==
    \A q \in Queries :
        (stage[q] = "fetched" /\ response[q] = Malformed) =>
            /\ cur = q
            /\ pc \in {"parse", "aborted"}
            /\ result = "response"
            /\ fetchCalls[q] = fails + 1
            /\ fetchCalls[q] = attempt
            /\ clearCalls[q] = 0
            /\ updateCalls[q] = 0
            /\ sheet[q] = pre[q]
            /\ \A r \in LaterQueries(q) :
                   /\ fetchCalls[r] = 0
                   /\ clearCalls[r] = 0
                   /\ updateCalls[r] = 0
                   /\ sheet[r] = pre[r]

C14_Witness ==
    /\ pc = "aborted"
    /\ cur = "Base"
    /\ response["Base"] = Malformed
    /\ fetchCalls["Base"] = 3
    /\ fails = 2


Terminated == pc \in {"done", "aborted"}

C15_CallBounds ==
    /\ authCalls <= 1
    /\ \A q \in Queries :
           /\ fetchCalls[q] <= 5
           /\ clearCalls[q] <= 5
           /\ updateCalls[q] <= 5
    /\ attempt <= 5
    /\ Len(sleeps) <= 4

\* C15: every run in which each network call and each sleep returns reaches
\* the completed or the aborted state, with at most 1 login request, 5 fetch
\* attempts per query and 5 clear and 5 update calls per worksheet.
C15_Terminates == []C15_CallBounds /\ <>Terminated

C15_Witness ==
    /\ pc = "aborted"
    /\ cur = "RFD"
    /\ fetchCalls["Base"] = 5
    /\ clearCalls["Base"] = 5
    /\ updateCalls["Base"] = 5
    /\ fetchCalls["RFD"] = 5
    /\ clearCalls["RFD"] = 5
    /\ updateCalls["RFD"] = 5


\* the call under way is a call of safe_update_sheet that has passed line 92
InWriteCall == df[cur] # NoTable /\ pc # "write_entry"

\* C16 as stated: one "Updating worksheet" line per attempt, so that k
\* attempts have produced k such lines, and one success line exactly when an
\* attempt succeeds.
C16_LogPerAttempt ==
    InWriteCall =>
        /\ logUpdating[cur] = attempt
        /\ logSuccess[cur] = (IF result = "True" THEN 1 ELSE 0)

\* C16: a call of safe_update_sheet prints the worksheet title exactly once,
\* before its first attempt, however many attempts follow; it prints exactly
\* one success line when an attempt succeeds and none when every attempt fails.
C16_LogOncePerCall ==
    /\ (df[cur] # NoTable /\ pc = "write_entry") =>
           logUpdating[cur] = 0 /\ attempt = 0 /\ clearCalls[cur] = 0
    /\ InWriteCall =>
           /\ logUpdating[cur] = 1
           /\ logSuccess[cur] = (IF result = "True" THEN 1 ELSE 0)
           /\ (result = "True") <=> (pc = "returned" /\ updateCalls[cur] > fails - (clearCalls[cur] - clearOk[cur]))
           /\ pc = "raised" => logSuccess[cur] = 0 /\ fails = retries

C16_Witness ==
    /\ pc = "returned"
    /\ result = "True"
    /\ attempt = 4
    /\ fails = 3
    /\ logUpdating[cur] = 1
    /\ logSuccess[cur] = 1


Other(q) == CHOOSE o \in Queries : o # q

\* the worksheet of q is as it was before the run, or empty, or holds the
\* whole grid of q's own result
C17_SheetState ==
    \A q \in Queries :
        /\ \/ sheet[q] = pre[q]
           \/ sheet[q] = Cleared
           \/ Parsed(q) /\ HoldsTable(sheet[q], raw[q])
        /\ clearOk[q] = 0 => sheet[q] = pre[q]
        /\ (clearOk[q] > 0 /\ stage[q] # "written") => sheet[q] = Cleared
        /\ stage[q] = "written" =>
               /\ HoldsTable(sheet[q], raw[q])
               /\ \A i \in 1..Len(sheet[q]) : \A j \in 1..Len(sheet[q][i]) :
                      sheet[q][i][j] # StaleCell
               /\ Parsed(Other(q)) => ~HoldsTable(sheet[q], raw[Other(q)])

\* a step taken while one query is processed leaves the other worksheet alone
C17_OtherSheetUntouched ==
    \A q \in Queries :
        q # cur =>
            /\ sheet'[q] = sheet[q]
            /\ clearCalls'[q] = clearCalls[q]
            /\ updateCalls'[q] = updateCalls[q]

\* C17: in every reachable state each worksheet holds its pre-run contents,
\* or nothing, or the complete grid (header and all rows) of its own query's
\* result of this run, never a partial grid, stale rows next to new ones or
\* the other query's rows; and no step of one query clears or updates the
\* worksheet of the other.
C17_SheetsOwnGridOnly == []C17_SheetState /\ [][C17_OtherSheetUntouched]_vars

C17_Witness ==
    /\ cur = "RFD"
    /\ pc = "write_update"
    /\ attempt = 2
    /\ stage["Base"] = "written"
    /\ HoldsTable(sheet["Base"], raw["Base"])
    /\ sheet["RFD"] = Cleared
    /\ sheet["RFD"] # pre["RFD"]
    /\ updateCalls["RFD"] = 1


FailedClears == clearCalls[cur] - clearOk[cur]

\* where a call of safe_update_sheet stands in its attempt
C18_AttemptState ==
    df[cur] # NoTable =>
        /\ updateCalls[cur] <= clearOk[cur]
        /\ clearOk[cur] <= clearCalls[cur]
        /\ clearCalls[cur] <= attempt
        /\ pc = "write_clear" => clearCalls[cur] = attempt - 1 /\ fails = attempt - 1
        /\ pc = "write_update" =>
               /\ clearCalls[cur] = attempt
               /\ clearOk[cur] = updateCalls[cur] + 1
               /\ sheet[cur] = Cleared
        /\ pc \in {"write_except", "write_sleep", "raised"} =>
               /\ fails = attempt
               /\ clearCalls[cur] = attempt
               /\ updateCalls[cur] = clearOk[cur]
               /\ fails = FailedClears + updateCalls[cur]
        /\ pc = "write_sleep" =>
               /\ attempt < retries
               /\ Len(sleeps) = attempt
               /\ sleeps[attempt] = 15 * attempt
        /\ pc = "raised" => attempt = retries /\ Len(sleeps) = retries - 1

\* what follows a clear: the update after a clear that returned, the except
\* branch with no update after a clear that raised, and a clear again at the
\* start of the next attempt
C18_AttemptStep ==
    df[cur] # NoTable =>
        /\ (pc = "write_clear" /\ clearOk'[cur] = clearOk[cur] /\ pc' # pc) =>
               /\ pc' = "write_except"
               /\ fails' = fails + 1
               /\ updateCalls' = updateCalls
               /\ sheet' = sheet
        /\ updateCalls'[cur] # updateCalls[cur] =>
               /\ pc = "write_update"
               /\ updateCalls'[cur] = updateCalls[cur] + 1
               /\ clearOk[cur] = updateCalls[cur] + 1
        /\ (pc = "write_sleep" /\ pc' # pc) => pc' = "write_loop"
        /\ (pc = "write_loop" /\ pc' \notin {pc, "returned"}) =>
               pc' = "write_clear" /\ attempt' = attempt + 1

\* C18: in safe_update_sheet a clear that raises is a failed attempt like an
\* update that raises: no update is issued in that attempt, the sleep of
\* 15*attempt is taken when attempts remain, and the next attempt begins with
\* a clear; an update is only issued right after a clear that returned in the
\* same attempt, and the updates on a worksheet never outnumber its
\* successful clears.
C18_FailedClearIsFailedAttempt == []C18_AttemptState /\ [][C18_AttemptStep]_vars

C18_Witness ==
    /\ pc = "write_update"
    /\ attempt = 3
    /\ clearCalls[cur] = 3
    /\ clearOk[cur] = 2
    /\ updateCalls[cur] = 1
    /\ sleeps = <<15, 30>>


\* C19: a call of fetch_with_retry or safe_update_sheet that returns has a
\* success value, the checked response or True, obtained from at least one
\* request or one clear and update; every other call ends in a raised failure.
\* A call with no attempts does not return without a result.
C19_SuccessOrFailure ==
    /\ pc = "returned" =>
           /\ result \in {"response", "True"}
           /\ HelperCalls >= 1
    /\ pc = "raised" => result = "raised"

====
